---- MODULE Spec2Model ----
(***************************************************************************)
(* Model of regression.cc (ghedger/regression): the OLS kernel (getSums,   *)
(* getMean, getBestFit, getLeastSquares), the file scanner parseFile and   *)
(* main.                                                                   *)
(*                                                                         *)
(* A C double is modelled as an exact rational, NaN or +-Inf: division by  *)
(* zero follows IEEE-754, rounding is not modelled (every finite result is *)
(* exact), and -0.0 is identified with 0.0.  A character is a one-letter   *)
(* string; a C string is a tuple of characters.                            *)
(***************************************************************************)
EXTENDS Integers, Sequences, FiniteSets, TLC

VARIABLES
  argv,       \* argv[1..argc-1] of main, each a tuple of characters
  fileExists, \* whether fopen(argv[2], "r") succeeds
  input,      \* the bytes of the file
  pc,         \* control point of the program
  exitCode,   \* main's return value (0 while running)
  out,        \* what was printed, in order
  data,       \* main: DataPoint *data
  data_size,  \* main: int data_size
  fit,        \* main: b, m and xbar once getBestFit/getMean were called
  ls,         \* result of a getLeastSquares call
  x, y,       \* parseFile: vector<double> x, y
  tuples,     \* parseFile: int tuples
  xy,         \* parseFile: bool xy
  accum,      \* parseFile: char accum[MAX_DIGITS], the characters stored since the last reset
  aidx,       \* parseFile: int aidx
  d,          \* parseFile: double d
  pos,        \* parseFile: number of bytes fgetc has consumed
  f,          \* parseFile: TRUE while the FILE* is open
  ret,        \* parseFile: the returned pointer
  emitted,    \* history: the numbers pushed on x or y, in order, with their token length
  lastWrite   \* history: index of the latest store into accum (-1: none yet)

vars == <<argv, fileExists, input, pc, exitCode, out, data, data_size, fit, ls,
          x, y, tuples, xy, accum, aidx, d, pos, f, ret, emitted, lastWrite>>

parseVars == <<x, y, tuples, xy, accum, aidx, d, pos, f, ret, emitted, lastWrite>>

\* const int MAX_DIGITS = 256
MAX_DIGITS == 256

(***************************************************************************)
(* Bounds of the explored inputs.                                          *)
(***************************************************************************)
\* longest enumerated file
MaxLen == 5
\* a long token is up to MAX_DIGITS + MaxOver characters
MaxOver == 2
\* characters following a long token
MaxTail == 2
\* most command-line arguments in direct mode
MaxArgs == 5
\* longest point sequence handed to the solvers directly
MaxN == 3

----------------------------------------------------------------------------
(* doubles *)

Fin(n, dd) == [k |-> "fin", n |-> n, d |-> dd]
NaN == [k |-> "nan", n |-> 0, d |-> 0]
Inf(s) == [k |-> "inf", n |-> s, d |-> 0]
Zero == Fin(0, 1)

Abs(i) == IF i < 0 THEN -i ELSE i
Sign(i) == IF i < 0 THEN -1 ELSE 1

RECURSIVE GCD(_, _)
GCD(a, b) == IF b = 0 THEN a ELSE GCD(b, a % b)

\* the rational n/dd (dd # 0) in lowest terms with a positive denominator
Rat(n, dd) ==
  LET g == GCD(Abs(n), Abs(dd))
  IN  Fin(Sign(dd) * (n \div g), Abs(dd) \div g)

IsZero(a) == a.k = "fin" /\ a.n = 0

DNeg(a) == IF a.k = "nan" THEN NaN ELSE [a EXCEPT !.n = -a.n]

DAdd(a, b) ==
  CASE a.k = "nan" \/ b.k = "nan" -> NaN
    [] a.k = "inf" /\ b.k = "inf" -> IF a.n = b.n THEN a ELSE NaN
    [] a.k = "inf" -> a
    [] b.k = "inf" -> b
    [] OTHER -> LET l == (a.d \div GCD(a.d, b.d)) * b.d
                IN  Rat(a.n * (l \div a.d) + b.n * (l \div b.d), l)

DSub(a, b) == DAdd(a, DNeg(b))

DMul(a, b) ==
  CASE a.k = "nan" \/ b.k = "nan" -> NaN
    [] a.k = "inf" \/ b.k = "inf" ->
         IF IsZero(a) \/ IsZero(b) THEN NaN ELSE Inf(Sign(a.n) * Sign(b.n))
    [] OTHER -> Rat(a.n * b.n, a.d * b.d)

DDiv(a, b) ==
  CASE a.k = "nan" \/ b.k = "nan" -> NaN
    [] a.k = "inf" -> IF b.k = "inf" THEN NaN ELSE Inf(a.n * Sign(b.n))
    [] b.k = "inf" -> Zero
    [] b.n = 0 -> IF a.n = 0 THEN NaN ELSE Inf(Sign(a.n))
    [] OTHER -> Rat(a.n * b.d, a.d * b.n)

\* conversion of a size_t or int to double
Dbl(i) == Fin(i, 1)

DataPoint(px, py) == [x |-> px, y |-> py]

----------------------------------------------------------------------------
(* the numerical kernel *)

\* the term of *xSquared with its second factor taken from y
xSquaredTermSlip(p) == DMul(p.x, p.y)

\* data[i].x * data[i].x
xSquaredTerm(p) == DMul(p.x, p.x)

\* the for loop of getSums from index i on, s holding *x, *y, *xSquared, *xy
RECURSIVE getSumsLoop(_, _, _)
getSumsLoop(pts, i, s) ==
  IF i > Len(pts) THEN s
  ELSE getSumsLoop(pts, i + 1,
         [x |-> DAdd(s.x, pts[i].x),
          y |-> DAdd(s.y, pts[i].y),
          xSquared |-> DAdd(s.xSquared, xSquaredTerm(pts[i])),
          xy |-> DAdd(s.xy, DMul(pts[i].x, pts[i].y))])

getSums(pts) ==
  getSumsLoop(pts, 1, [x |-> Zero, y |-> Zero, xSquared |-> Zero, xy |-> Zero])

RECURSIVE getMeanLoop(_, _, _)
getMeanLoop(pts, i, sum) ==
  IF i > Len(pts) THEN sum ELSE getMeanLoop(pts, i + 1, DAdd(sum, pts[i].x))

getMean(pts) == DDiv(getMeanLoop(pts, 1, Zero), Dbl(Len(pts)))

\* (size * sigmaXSquared) - sigmaX * sigmaX
Denominator(pts) ==
  LET s == getSums(pts)
  IN  DSub(DMul(Dbl(Len(pts)), s.xSquared), DMul(s.x, s.x))

getBestFit(pts) ==
  LET s == getSums(pts)
      size == Dbl(Len(pts))
      m == DDiv(DSub(DMul(size, s.xy), DMul(s.x, s.y)), Denominator(pts))
      b == DDiv(DSub(s.y, DMul(m, s.x)), size)
  IN  [b |-> b, m |-> m]

\* getLeastSquares with sigmaY in place of sigmaXY in a's numerator
getLeastSquaresSlip(pts) ==
  LET s == getSums(pts)
      size == Dbl(Len(pts))
      a == DDiv(DSub(DMul(s.y, s.xSquared), DMul(s.x, s.y)), Denominator(pts))
      b == DDiv(DSub(DMul(size, s.xy), DMul(s.x, s.y)), Denominator(pts))
  IN  [a |-> a, b |-> b]

getLeastSquares(pts) ==
  LET s == getSums(pts)
      size == Dbl(Len(pts))
      a == DDiv(DSub(DMul(s.y, s.xSquared), DMul(s.x, s.xy)), Denominator(pts))
      b == DDiv(DSub(DMul(size, s.xy), DMul(s.x, s.y)), Denominator(pts))
  IN  [a |-> a, b |-> b]

----------------------------------------------------------------------------
(* characters and sscanf("%lf") *)

Digits == {"0", "1", "2", "3", "4", "5", "6", "7", "8", "9"}

DigitVal(c) ==
  CASE c = "0" -> 0 [] c = "1" -> 1 [] c = "2" -> 2 [] c = "3" -> 3 [] c = "4" -> 4
    [] c = "5" -> 5 [] c = "6" -> 6 [] c = "7" -> 7 [] c = "8" -> 8 [] c = "9" -> 9

\* isdigit(c) || '.' == c || '-' == c
IsDigitClass(c) == c \in Digits \/ "." = c \/ "-" = c

\* how many digits s holds from index i on, before the first other character
RECURSIVE DigitRun(_, _)
DigitRun(s, i) ==
  IF i > Len(s) \/ s[i] \notin Digits THEN 0 ELSE 1 + DigitRun(s, i + 1)

\* the value of the digits s[i..j], read into acc from the left
RECURSIVE DigitsVal(_, _, _, _)
DigitsVal(s, i, j, acc) ==
  IF i > j THEN acc ELSE DigitsVal(s, i + 1, j, 10 * acc + DigitVal(s[i]))

RECURSIVE Pow10(_)
Pow10(n) == IF n = 0 THEN 1 ELSE 10 * Pow10(n - 1)

\* sscanf(s, "%lf", &v) for a string s of digits, '.', '-' and letters: the
\* longest prefix [-]digits[.digits] holding at least one digit is converted;
\* without one nothing is stored (ok = FALSE: an empty string, "-", ".", "-f").
\* Exponents, hexadecimal, "inf"/"nan", '+' and leading blanks need characters
\* no string of the model holds at that place.
ScanDouble(s) ==
  LET neg == Len(s) > 0 /\ s[1] = "-"
      i0 == IF neg THEN 2 ELSE 1
      ni == DigitRun(s, i0)
      dot == i0 + ni
      nf == IF dot <= Len(s) /\ s[dot] = "." THEN DigitRun(s, dot + 1) ELSE 0
      whole == DigitsVal(s, i0, dot - 1, 0)
      mant == DigitsVal(s, dot + 1, dot + nf, whole)
  IN  IF ni + nf = 0 THEN [ok |-> FALSE, val |-> Zero]
      ELSE [ok |-> TRUE, val |-> Rat(IF neg THEN -mant ELSE mant, Pow10(nf))]

----------------------------------------------------------------------------
(* pointers *)

NULL == [null |-> TRUE, pts |-> <<>>]
Ptr(pts) == [null |-> FALSE, pts |-> pts]

NoFit == [called |-> FALSE, size |-> 0, b |-> Zero, m |-> Zero, xbar |-> Zero]
NoLs == [called |-> FALSE, a |-> Zero, b |-> Zero]

----------------------------------------------------------------------------
(* parseFile *)

\* fgetc has a next byte, and which
HasChar == pos < Len(input)
c == input[pos + 1]

\* if (aidx > MAX_DIGITS)
Overflow(i) == i > MAX_DIGITS

\* accum has MAX_DIGITS elements: a store at index i is outside it
OutOfRange(i) == i >= MAX_DIGITS

\* the copy loop with data[i].y taken from x
BuildDataSlip(xs, ys, n) == [i \in 1..n |-> DataPoint(xs[i], xs[i])]

\* data = new DataPoint[tuples]; data[i].x = x[i]; data[i].y = y[i];
BuildData(xs, ys, n) == [i \in 1..n |-> DataPoint(xs[i], ys[i])]

\* if (xy) { y.push_back(d); tuples++; } else { x.push_back(d); }
TuplesAfterPush(isY, t) == IF isY THEN t + 1 ELSE t

\* A store outside accum is undefined behaviour: the build either lets it land
\* in the adjacent stack bytes and goes on, or the program dies.
StoreOutcome(i, goOn) ==
  \/ goOn
  \/ /\ OutOfRange(i)
     /\ pc' = "crashed"
     /\ lastWrite' = i
     /\ UNCHANGED <<x, y, tuples, xy, accum, aidx, d, pos, f, ret, emitted, data_size>>

\* accum[aidx++] = c
ReadDigit ==
  /\ pc = "parse"
  /\ HasChar
  /\ IsDigitClass(c)
  /\ ~Overflow(aidx)
  /\ StoreOutcome(aidx,
       /\ accum' = Append(SubSeq(accum, 1, aidx), c)
       /\ aidx' = aidx + 1
       /\ lastWrite' = aidx
       /\ pos' = pos + 1
       /\ UNCHANGED <<pc, x, y, tuples, xy, d, f, ret, emitted, data_size>>)
  /\ UNCHANGED <<argv, fileExists, input, exitCode, out, data, fit, ls>>

\* x.clear(); y.clear(); return NULL;   (f is not closed)
ReadOverflow ==
  /\ pc = "parse"
  /\ HasChar
  /\ IsDigitClass(c)
  /\ Overflow(aidx)
  /\ x' = <<>>
  /\ y' = <<>>
  /\ ret' = NULL
  /\ pos' = pos + 1
  /\ pc' = "returned"
  /\ UNCHANGED <<tuples, xy, accum, aidx, d, f, emitted, lastWrite, data_size>>
  /\ UNCHANGED <<argv, fileExists, input, exitCode, out, data, fit, ls>>

\* the else branch: terminate accum, reset aidx, sscanf, push on x or y, toggle
ReadSeparator ==
  /\ pc = "parse"
  /\ HasChar
  /\ ~IsDigitClass(c)
  /\ StoreOutcome(aidx,
       LET token == SubSeq(accum, 1, aidx)
           r == ScanDouble(token)
           dNew == IF r.ok THEN r.val ELSE d
       IN  /\ accum' = token
           /\ lastWrite' = aidx
           /\ aidx' = 0
           /\ d' = dNew
           /\ x' = IF xy THEN x ELSE Append(x, dNew)
           /\ y' = IF xy THEN Append(y, dNew) ELSE y
           /\ tuples' = TuplesAfterPush(xy, tuples)
           /\ xy' = ~xy
           /\ emitted' = Append(emitted, [val |-> dNew, len |-> aidx])
           /\ pos' = pos + 1
           /\ UNCHANGED <<pc, f, ret, data_size>>)
  /\ UNCHANGED <<argv, fileExists, input, exitCode, out, data, fit, ls>>

\* fgetc returned EOF: build data from x and y, clear them, set *data_size, return
\* data.  Whatever accum holds is left unparsed, and f is not closed.
ReadEOF ==
  /\ pc = "parse"
  /\ ~HasChar
  /\ ret' = Ptr(BuildData(x, y, tuples))
  /\ x' = <<>>
  /\ y' = <<>>
  /\ data_size' = tuples
  /\ pc' = "returned"
  /\ UNCHANGED <<tuples, xy, accum, aidx, d, pos, f, emitted, lastWrite>>
  /\ UNCHANGED <<argv, fileExists, input, exitCode, out, data, fit, ls>>

----------------------------------------------------------------------------
(* main *)

argc == Len(argv) + 1

FlagF == <<"-", "f">>
FlagXF == <<"-", "x", "f">>

\* !strcmp(argv[1], "-f") || !strcmp(argv[1], "-xf")
IsFileFlag(s) == s = FlagF \/ s = FlagXF

\* lines 313-333: the file flags are looked at only when argc is 3 or 4; with
\* argc < 3 the usage is printed; everything else falls through to line 337.
MainStart ==
  /\ pc = "start"
  /\ IF argc < 5
     THEN IF argc > 2
          THEN IF IsFileFlag(argv[1])
               THEN \* parseFile(argv[2], &data_size): its locals, then fopen
                    /\ x' = <<>> /\ y' = <<>> /\ tuples' = 0 /\ xy' = FALSE
                    /\ aidx' = 0 /\ d' = Zero /\ pos' = 0
                    /\ IF fileExists
                       THEN f' = TRUE /\ pc' = "parse" /\ ret' = ret
                       ELSE f' = FALSE /\ pc' = "returned" /\ ret' = NULL
                    /\ UNCHANGED <<exitCode, out, accum, emitted, lastWrite>>
               ELSE /\ pc' = "direct"
                    /\ UNCHANGED <<exitCode, out, parseVars>>
          ELSE /\ out' = Append(out, "usage")
               /\ exitCode' = 1
               /\ pc' = "exit"
               /\ UNCHANGED parseVars
     ELSE /\ pc' = "direct"
          /\ UNCHANGED <<exitCode, out, parseVars>>
  /\ UNCHANGED <<argv, fileExists, input, data, data_size, fit, ls>>

\* the swap loop of -xf
SwapXY(pts) == [i \in 1..Len(pts) |-> DataPoint(pts[i].y, pts[i].x)]

\* lines 316-327, after parseFile has returned; data is then non-NULL and
\* line 337 skips the command-line branch
MainAfterParse ==
  /\ pc = "returned"
  /\ IF ret.null
     THEN /\ data' = ret
          /\ out' = Append(out, "could not read")
          /\ exitCode' = -1
          /\ pc' = "exit"
     ELSE /\ data' = IF argv[1] = FlagXF THEN Ptr(SwapXY(ret.pts)) ELSE ret
          /\ pc' = "fit"
          /\ UNCHANGED <<exitCode, out>>
  /\ UNCHANGED <<argv, fileExists, input, data_size, fit, ls, parseVars>>

\* double v; is not initialised: a first sscanf that stores nothing leaves
\* whatever the stack held
Uninitialised == {Zero, Dbl(3)}

\* the loop of lines 341-346 from point i on, v holding the last value stored
RECURSIVE ArgLoop(_, _, _, _)
ArgLoop(i, n, v, acc) ==
  IF i > n THEN acc
  ELSE LET rx == ScanDouble(argv[2 * i - 1])
           vx == IF rx.ok THEN rx.val ELSE v
           ry == ScanDouble(argv[2 * i])
           vy == IF ry.ok THEN ry.val ELSE vx
       IN  ArgLoop(i + 1, n, vy, Append(acc, DataPoint(vx, vy)))

\* lines 337-347 with data == NULL
MainDirect ==
  /\ pc = "direct"
  /\ data_size' = (argc - 1) \div 2
  /\ \E v \in Uninitialised :
       data' = Ptr(ArgLoop(1, (argc - 1) \div 2, v, <<>>))
  /\ pc' = "fit"
  /\ UNCHANGED <<argv, fileExists, input, exitCode, out, fit, ls, parseVars>>

\* lines 349-363: the warning, getBestFit, getMean and the report
MainFit ==
  /\ pc = "fit"
  /\ LET r == getBestFit(data.pts)
         warned == IF data_size * 2 < argc - 1 THEN Append(out, "warning") ELSE out
     IN  /\ fit' = [called |-> TRUE, size |-> data_size, b |-> r.b, m |-> r.m,
                    xbar |-> getMean(data.pts)]
         /\ out' = warned \o <<"best fit", "y at mean">>
  /\ pc' = "computed"
  /\ UNCHANGED <<argv, fileExists, input, exitCode, data, data_size, ls, parseVars>>

\* delete data; return 0;   data came from new[], so the delete expression is
\* undefined behaviour: the build either frees the block or the program dies.
MainExit ==
  /\ pc = "computed"
  /\ \/ pc' = "exit" /\ exitCode' = 0
     \/ pc' = "crashed" /\ UNCHANGED exitCode
  /\ UNCHANGED <<argv, fileExists, input, out, data, data_size, fit, ls, parseVars>>

----------------------------------------------------------------------------
(* the explored invocations *)

SeqsUpTo(S, n) == UNION {[1..k -> S] : k \in 0..n}

\* the characters of the enumerated files: digits, both other digit-class
\* characters and two separators
Alphabet == {"1", "2", ".", "-", ",", "\n"}

\* "43,99\n21,65\n25,79" and "1,2,3", each without and with a final separator
Example1 ==
  <<"4", "3", ",", "9", "9", "\n", "2", "1", ",", "6", "5", "\n", "2", "5", ",", "7", "9">>
Example2 == <<"1", ",", "2", ",", "3">>
Examples == {Example1, Append(Example1, "\n"), Example2, Append(Example2, "\n")}

\* a token of n zeros
Zeros(n) == [i \in 1..n |-> "0"]

\* files that open with a token about MAX_DIGITS long
LongInputs ==
  {Zeros(n) \o t : n \in (MAX_DIGITS - 1)..(MAX_DIGITS + MaxOver),
                   t \in SeqsUpTo({"1", ","}, MaxTail)}

Inputs == SeqsUpTo(Alphabet, MaxLen) \cup Examples

ArgStrs == {<<"1">>, <<"2">>, <<"-", "1">>, FlagF}
FileName == <<"d">>

\* argv[1..] that main hands to parseFile
FileArgvs == {<<FlagF, FileName>>, <<FlagXF, FileName>>, <<FlagF, FileName, <<"1">>>>}

IsFileMode(a) == Len(a) + 1 < 5 /\ Len(a) + 1 > 2 /\ IsFileFlag(a[1])

Blank ==
  /\ pc = "start" /\ exitCode = 0 /\ out = <<>>
  /\ data = NULL /\ data_size = 0 /\ fit = NoFit /\ ls = NoLs
  /\ x = <<>> /\ y = <<>> /\ tuples = 0 /\ xy = FALSE
  /\ accum = <<>> /\ aidx = 0 /\ d = Zero /\ pos = 0
  /\ f = FALSE /\ ret = NULL /\ emitted = <<>> /\ lastWrite = -1

Init ==
  /\ Blank
  /\ \/ /\ argv \in {a \in SeqsUpTo(ArgStrs, MaxArgs) : ~IsFileMode(a)}
        /\ fileExists = FALSE
        /\ input = <<>>
     \/ /\ argv \in FileArgvs
        /\ \/ fileExists = FALSE /\ input = <<>>
           \/ fileExists = TRUE /\ input \in Inputs
     \/ /\ argv = <<FlagF, FileName>>
        /\ fileExists = TRUE
        /\ input \in LongInputs

Next ==
  \/ MainStart
  \/ ReadDigit
  \/ ReadOverflow
  \/ ReadSeparator
  \/ ReadEOF
  \/ MainAfterParse
  \/ MainDirect
  \/ MainFit
  \/ MainExit

Spec == Init /\ [][Next]_vars

----------------------------------------------------------------------------
(* the solvers applied to point sequences directly *)

FitCoords == {-2, 0, 1, 3}

FitPoints == {DataPoint(Dbl(px), Dbl(py)) : px \in FitCoords, py \in FitCoords}

\* getBestFit(data, size, &b, &m)
CallBestFit ==
  /\ pc = "solvers"
  /\ ~fit.called
  /\ LET r == getBestFit(data.pts)
     IN  fit' = [called |-> TRUE, size |-> Len(data.pts), b |-> r.b, m |-> r.m,
                 xbar |-> Zero]
  /\ UNCHANGED <<argv, fileExists, input, pc, exitCode, out, data, data_size, ls, parseVars>>

\* getLeastSquares(data, size, &a, &b)
CallLeastSquares ==
  /\ pc = "solvers"
  /\ ~ls.called
  /\ LET r == getLeastSquares(data.pts)
     IN  ls' = [called |-> TRUE, a |-> r.a, b |-> r.b]
  /\ UNCHANGED <<argv, fileExists, input, pc, exitCode, out, data, data_size, fit, parseVars>>

InitFit ==
  /\ argv = <<>> /\ fileExists = FALSE /\ input = <<>>
  /\ pc = "solvers" /\ exitCode = 0 /\ out = <<>>
  /\ \E n \in 1..MaxN : \E pts \in [1..n -> FitPoints] :
       data = Ptr(pts) /\ data_size = n
  /\ fit = NoFit /\ ls = NoLs
  /\ x = <<>> /\ y = <<>> /\ tuples = 0 /\ xy = FALSE
  /\ accum = <<>> /\ aidx = 0 /\ d = Zero /\ pos = 0
  /\ f = FALSE /\ ret = NULL /\ emitted = <<>> /\ lastWrite = -1

NextFit == CallBestFit \/ CallLeastSquares

SpecFit == InitFit /\ [][NextFit]_vars

----------------------------------------------------------------------------
(* The scanner as section 4.3 of the specification describes it, used only to
   state claims: the maximal runs of digit-class characters, each read as a
   number, paired x, y, x, y, ... *)

RECURSIVE RefTokens(_, _, _)
RefTokens(s, i, cur) ==
  LET done == IF cur = <<>> THEN <<>> ELSE <<cur>>
  IN  IF i > Len(s) THEN done
      ELSE IF IsDigitClass(s[i]) THEN RefTokens(s, i + 1, Append(cur, s[i]))
      ELSE done \o RefTokens(s, i + 1, <<>>)

Tokens(s) == RefTokens(s, 1, <<>>)

RefPoints(s) ==
  LET t == Tokens(s)
  IN  [i \in 1..(Len(t) \div 2) |->
         DataPoint(ScanDouble(t[2 * i - 1]).val, ScanDouble(t[2 * i]).val)]

AllNumeric(s) == \A i \in 1..Len(Tokens(s)) : ScanDouble(Tokens(s)[i]).ok
WithinLimit(s) == \A i \in 1..Len(Tokens(s)) : Len(Tokens(s)[i]) <= MAX_DIGITS

\* every separator of s ends a token: s does not start with a separator and
\* holds no two separators in a row (those are the case of C2)
NoEmptySeparator(s) ==
  \A i \in 1..Len(s) :
    ~IsDigitClass(s[i]) => (i > 1 /\ IsDigitClass(s[i - 1]))

Num(i) == Dbl(i)
Returned == pc = "returned" /\ fileExists

----------------------------------------------------------------------------
(* claims *)

\* C1: for every file whose tokens are within the length limit (and are
\* numbers), parseFile returns exactly the points made of the maximal
\* digit-class runs paired in order, the run that ends at end of file included;
\* "43,99\n21,65\n25,79" gives [(43,99),(21,65),(25,79)] with data_size = 3.
\* Stated for the files in which every separator ends a token, so that the
\* separator runs of C2 play no part.
C1_ReturnsAllTokenPairs ==
  /\ (Returned /\ WithinLimit(input) /\ AllNumeric(input) /\ NoEmptySeparator(input)) =>
       (~ret.null /\ ret.pts = RefPoints(input) /\ data_size = Len(RefPoints(input)))
  /\ (Returned /\ input = Example1) =>
       (/\ ret.pts = <<DataPoint(Num(43), Num(99)), DataPoint(Num(21), Num(65)),
                       DataPoint(Num(25), Num(79))>>
        /\ data_size = 3)

\* C2: a separator read while the accumulator is empty appends nothing to x or
\* y, does not toggle xy and does not change tuples.
C2_EmptySeparatorEmitsNothing ==
  [][(pc = "parse" /\ HasChar /\ ~IsDigitClass(c) /\ aidx = 0)
       => UNCHANGED <<x, y, xy, tuples>>]_vars

\* C3: with k numbers pushed by the scanner, parseFile returns k div 2 points,
\* point i being (number 2i-1, number 2i) counting from 1, and data_size says
\* so; an odd last number is dropped; "1,2,3" gives [(1,2)] with or without a
\* final separator.
C3_PairsOfEmittedNumbers ==
  /\ (Returned /\ ~ret.null) =>
       /\ Len(ret.pts) = Len(emitted) \div 2
       /\ data_size = Len(emitted) \div 2
       /\ \A i \in 1..Len(ret.pts) :
            ret.pts[i] = DataPoint(emitted[2 * i - 1].val, emitted[2 * i].val)
  /\ (Returned /\ input \in {Example2, Append(Example2, "\n")}) =>
       (~ret.null /\ ret.pts = <<DataPoint(Num(1), Num(2))>>)

\* C3 witness: a returned sequence after an odd number of pushes, the last dropped
C3_Witness ==
  /\ Returned /\ ~ret.null
  /\ Len(emitted) = 3
  /\ Len(ret.pts) = 1
  /\ emitted[3].val # emitted[1].val

\* C4: a digit-class run longer than MAX_DIGITS makes parseFile return NULL, no
\* token longer than MAX_DIGITS is ever parsed and pushed, and a file whose
\* tokens are all at most MAX_DIGITS long is accepted.
C4_LongTokenRejected ==
  /\ (Returned /\ ~WithinLimit(input)) => ret.null
  /\ \A i \in 1..Len(emitted) : emitted[i].len <= MAX_DIGITS
  /\ (Returned /\ WithinLimit(input)) => ~ret.null

\* C5: in direct-coordinate mode with argc < 5, main prints the usage, exits
\* with status 1 and calls neither getBestFit nor getMean.
C5_FewArgumentsPrintUsage ==
  (argc < 5 /\ (argc > 1 => ~IsFileFlag(argv[1]))) =>
    /\ ~fit.called
    /\ pc = "exit" => (exitCode = 1 /\ out = <<"usage">>)

\* C8: once parseFile has returned after a successful fopen, with a sequence
\* or with the overflow failure, the file is closed, and stays so to the end.
C8_FileClosedOnReturn ==
  (fileExists /\ pc \in {"returned", "fit", "computed", "exit"}) => ~f

\* C9: getBestFit and getMean are never called with size 0.
C9_NeverFitsZeroPoints ==
  fit.called => fit.size # 0

\* C10: every store into accum, of a character or of the terminator, is at an
\* index in 0..MAX_DIGITS-1.
C10_StoresWithinAccum ==
  lastWrite \in -1..(MAX_DIGITS - 1)

AllXEqual(pts) == \A i, j \in 1..Len(pts) : pts[i].x = pts[j].x

\* C6: for N >= 2 points whose x are not all equal, getLeastSquares' a is
\* getBestFit's b and getLeastSquares' b is getBestFit's m, both finite.
C6_SolversAgree ==
  (pc = "solvers" /\ fit.called /\ ls.called
     /\ Len(data.pts) >= 2 /\ ~AllXEqual(data.pts)) =>
    /\ ls.a.k = "fin" /\ ls.b.k = "fin"
    /\ ls.a = fit.b
    /\ ls.b = fit.m

\* C6 witness: both solvers called on points with distinct x and a slope other than 0
C6_Witness ==
  /\ pc = "solvers" /\ fit.called /\ ls.called
  /\ Len(data.pts) >= 2 /\ ~AllXEqual(data.pts)
  /\ fit.m # Zero /\ fit.b # Zero

====
